---- MODULE Spec2Model ----
(***************************************************************************)
(* Simon Says (src/script.js): the round state machine (state, beginRound, *)
(* startRunFromLevel, advanceLevelOrWin, onPadPress, the replay handler,   *)
(* the navigation handlers) and the requestAnimationFrame playback engine  *)
(* (playSequenceWithRaf).                                                  *)
(*                                                                         *)
(* Handlers are translated with the guards script.js gives them.  The     *)
(* navigation and level buttons have no guard in script.js: a button can   *)
(* be clicked while the screen that contains it is the active one          *)
(* (showScreen toggles the "active" class), which ButtonScreen records.    *)
(* Spec delivers those clicks on the active screen only.  SpecOpen also    *)
(* delivers a click on a level button while another screen is shown, which *)
(* startRunFromLevel does nothing to refuse.  Pad and replay clicks are    *)
(* delivered at any time in both: their handlers check state.screen and    *)
(* the mode flags.                                                         *)
(*                                                                         *)
(* Time.  A playback closure reads the frame timestamp ts only through     *)
(* `!lastStamp` and `ts - lastStamp`.  The model keeps, per playback,      *)
(* stamped (lastStamp is non-zero) and elapsed (latest ts - lastStamp),    *)
(* and a frame advances the clock by d > 0; only the very first frame of   *)
(* the page may carry ts = 0.                                              *)
(*                                                                         *)
(* Arrays.  startRunFromLevel assigns a new array to state.sequence, while *)
(* advanceLevelOrWin pushes onto the current one.  A playback holds the    *)
(* array it was started with: alias = TRUE while that array is still       *)
(* state.sequence, otherwise len is the (now immutable) length of the      *)
(* array it holds.                                                         *)
(***************************************************************************)
EXTENDS Integers, Sequences, FiniteSets, TLC

\* ---------------------------------------------------------------- bounds
MaxPlaybacks == 2     \* playbacks registered with requestAnimationFrame at once
MaxTimers == 1        \* pending setTimeout(beginRound, 650) registrations
TickShort == 350      \* a frame-to-frame distance below every stepMs
TickLong == 700       \* a frame-to-frame distance reaching every stepMs
MaxOpenLevel == 0     \* SpecOpen: the level buttons 0..MaxOpenLevel are clicked

\* ------------------------------------------------------ program constants
LEVELS ==
  << [id |-> 1, sequenceLength |-> 3, stepMs |-> 700],
     [id |-> 2, sequenceLength |-> 4, stepMs |-> 620],
     [id |-> 3, sequenceLength |-> 5, stepMs |-> 540],
     [id |-> 4, sequenceLength |-> 6, stepMs |-> 470],
     [id |-> 5, sequenceLength |-> 7, stepMs |-> 400] >>

COLORS == << "red", "blue", "green", "yellow" >>

MinFloorMs == 280
RoundBonus == 100

\* the colours of the four pads
PadColors == { COLORS[i] : i \in DOMAIN COLORS }

\* The colours randColor is let to return.  The game reads a colour only to
\* compare a press with sequence[inputIndex], so two colours give every
\* outcome of every comparison, at every position; a third multiplies the
\* arrays of length 7 by 17 and changes no branch taken.
Colors == { COLORS[1], COLORS[2] }

\* the level buttons: one index per catalog entry (0-based as in the code)
LevelIndices == 0..(Len(LEVELS) - 1)

\* frame-to-frame distances the clock may take
Ticks == { TickShort, TickLong }

Max(a, b) == IF a >= b THEN a ELSE b

VARIABLES
  screen,               \* state.screen
  levelIndex,           \* state.levelIndex
  score,                \* state.score
  sequence,             \* state.sequence (the current array)
  inputIndex,           \* state.inputIndex
  acceptingInput,       \* state.acceptingInput
  isAnimatingSequence,  \* state.isAnimatingSequence
  playbacks,            \* frame callbacks registered by playSequenceWithRaf, in order
  timers,               \* pending setTimeout(beginRound, 650) registrations
  clockStarted,         \* a frame has already been delivered (ts > 0 from now on)
  startLevel,           \* history: index passed to the latest startRunFromLevel
  advanced,             \* history: level advances since the latest startRunFromLevel
  badDone               \* history: a playback completed with emits # array length

vars == << screen, levelIndex, score, sequence, inputIndex, acceptingInput,
           isAnimatingSequence, playbacks, timers, clockStarted,
           startLevel, advanced, badDone >>

Init ==
  /\ screen = "menu"
  /\ levelIndex = 0
  /\ score = 0
  /\ sequence = << >>
  /\ inputIndex = 0
  /\ acceptingInput = FALSE
  /\ isAnimatingSequence = FALSE
  /\ playbacks = << >>
  /\ timers = 0
  /\ clockStarted = FALSE
  /\ startLevel = 0
  /\ advanced = 0
  /\ badDone = FALSE

\* ------------------------------------------------------- playback engine

\* playSequenceWithRaf(sequence, stepMs, onDone): a new closure, registered
\* for the next frame.  idx = 0, lastStamp = 0.
playSequenceWithRaf(pbs, stepMs, onDone) ==
  Append(pbs, [ idx         |-> 0,
                stamped     |-> FALSE,
                elapsed     |-> 0,
                minInterval |-> Max(MinFloorMs, stepMs),
                onDone      |-> onDone,
                alias       |-> TRUE,
                len         |-> 0,
                emits       |-> 0,
                lastEmit    |-> -1,
                sinceEmit   |-> 0,
                shortGap    |-> FALSE ])

\* sequence.length as the closure p sees it
ArrayLen(p, seq) == IF p.alias THEN Len(seq) ELSE p.len

\* the emit effect of frame: glowPad(sequence[idx]); playColorSound(sequence[idx])
Emit(p, d) ==
  [ p EXCEPT !.emits = @ + 1,
             !.lastEmit = p.idx,
             !.sinceEmit = 0,
             !.shortGap = @ \/ (p.emits > 0 /\ p.sinceEmit + d < p.minInterval) ]

frame_NoIncrement(p, d, zero, seq) ==
  IF ~p.stamped
    THEN [ done |-> FALSE,
           p |-> [ Emit(p, d) EXCEPT !.stamped = ~zero,
                                     !.elapsed = 0,
                                     !.idx = p.idx + 1 ] ]
    ELSE IF p.elapsed + d >= p.minInterval
      THEN IF p.idx >= ArrayLen(p, seq)
        THEN [ done |-> TRUE, p |-> p ]
        ELSE [ done |-> FALSE,
               p |-> [ Emit(p, d) EXCEPT !.elapsed = 0 ] ]
      ELSE [ done |-> FALSE,
             p |-> [ p EXCEPT !.elapsed = p.elapsed + d,
                              !.sinceEmit = p.sinceEmit + d ] ]

frame_NeverDone(p, d, zero, seq) ==
  IF ~p.stamped
    THEN [ done |-> FALSE,
           p |-> [ Emit(p, d) EXCEPT !.stamped = ~zero,
                                     !.elapsed = 0,
                                     !.idx = p.idx + 1 ] ]
    ELSE IF p.elapsed + d >= p.minInterval
      THEN IF p.idx >= ArrayLen(p, seq)
        THEN [ done |-> FALSE, p |-> p ]
        ELSE [ done |-> FALSE,
               p |-> [ Emit(p, d) EXCEPT !.idx = p.idx + 1,
                                         !.elapsed = 0 ] ]
      ELSE [ done |-> FALSE,
             p |-> [ p EXCEPT !.elapsed = p.elapsed + d,
                              !.sinceEmit = p.sinceEmit + d ] ]

frame_DoneOnLastEmit(p, d, zero, seq) ==
  IF ~p.stamped
    THEN [ done |-> FALSE,
           p |-> [ Emit(p, d) EXCEPT !.stamped = ~zero,
                                     !.elapsed = 0,
                                     !.idx = p.idx + 1 ] ]
    ELSE IF p.elapsed + d >= p.minInterval
      THEN IF p.idx + 1 >= ArrayLen(p, seq)
        THEN [ done |-> TRUE, p |-> p ]
        ELSE [ done |-> FALSE,
               p |-> [ Emit(p, d) EXCEPT !.idx = p.idx + 1,
                                         !.elapsed = 0 ] ]
      ELSE [ done |-> FALSE,
             p |-> [ p EXCEPT !.elapsed = p.elapsed + d,
                              !.sinceEmit = p.sinceEmit + d ] ]

\* frame(ts) of one closure: d is ts minus the previous frame's timestamp,
\* zero says ts = 0.  Result: the closure afterwards, and whether onDone ran
\* (in which case no further frame is requested).
frame(p, d, zero, seq) ==
  IF ~p.stamped
    THEN [ done |-> FALSE,
           p |-> [ Emit(p, d) EXCEPT !.stamped = ~zero,
                                     !.elapsed = 0,
                                     !.idx = p.idx + 1 ] ]
    ELSE IF p.elapsed + d >= p.minInterval
      THEN IF p.idx >= ArrayLen(p, seq)
        THEN [ done |-> TRUE, p |-> p ]
        ELSE [ done |-> FALSE,
               p |-> [ Emit(p, d) EXCEPT !.idx = p.idx + 1,
                                         !.elapsed = 0 ] ]
      ELSE [ done |-> FALSE,
             p |-> [ p EXCEPT !.elapsed = p.elapsed + d,
                              !.sinceEmit = p.sinceEmit + d ] ]

\* onDone of beginRound's playback: st holds the fields the callbacks write
RoundDone(st) ==
  [ st EXCEPT !.isAnimatingSequence = FALSE,
              !.acceptingInput = TRUE ]

ReplayDone_NoCursorReset(st) ==
  [ st EXCEPT !.isAnimatingSequence = FALSE,
              !.acceptingInput = TRUE ]

\* onDone of the replay handler's playback
ReplayDone(st) ==
  [ st EXCEPT !.isAnimatingSequence = FALSE,
              !.acceptingInput = TRUE,
              !.inputIndex = 0 ]

\* One animation frame: every registered callback runs once, in
\* registration order, with the same ts.  st carries the fields the
\* completion callbacks write.
RECURSIVE RunFrames(_, _, _, _, _)
RunFrames(pbs, d, zero, seq, st) ==
  IF pbs = << >> THEN st
  ELSE
    LET r == frame(Head(pbs), d, zero, seq)
        st1 ==
          IF r.done
            THEN [ (IF r.p.onDone = "replay" THEN ReplayDone(st)
                                              ELSE RoundDone(st))
                     EXCEPT !.badDone = @ \/ r.p.emits # ArrayLen(r.p, seq) ]
            ELSE [ st EXCEPT !.keep = Append(@, r.p) ]
    IN RunFrames(Tail(pbs), d, zero, seq, st1)

\* requestAnimationFrame delivers a frame
Frame(d, zero) ==
  LET st0 == [ keep |-> << >>,
               isAnimatingSequence |-> isAnimatingSequence,
               acceptingInput |-> acceptingInput,
               inputIndex |-> inputIndex,
               badDone |-> badDone ]
      st == RunFrames(playbacks, d, zero, sequence, st0)
  IN /\ zero => ~clockStarted
     /\ clockStarted' = TRUE
     /\ playbacks' = st.keep
     /\ isAnimatingSequence' = st.isAnimatingSequence
     /\ acceptingInput' = st.acceptingInput
     /\ inputIndex' = st.inputIndex
     /\ badDone' = st.badDone
     /\ UNCHANGED << screen, levelIndex, score, sequence, timers,
                     startLevel, advanced >>

\* --------------------------------------------------- round state machine

\* beginRound(): flags, cursor, and a playback of the current array
beginRound(pbs, lvl) ==
  /\ acceptingInput' = FALSE
  /\ isAnimatingSequence' = TRUE
  /\ inputIndex' = 0
  /\ playbacks' = playSequenceWithRaf(pbs, LEVELS[lvl + 1].stepMs, "round")

\* playbacks that hold the array being replaced keep it, with its length
Detach(pbs, seq) ==
  [ i \in 1..Len(pbs) |->
      IF pbs[i].alias THEN [ pbs[i] EXCEPT !.alias = FALSE, !.len = Len(seq) ]
                      ELSE pbs[i] ]

startRunFromLevel_KeepsScore(index, newSeq) ==
  /\ Len(playbacks) < MaxPlaybacks
  /\ Len(newSeq) = LEVELS[index + 1].sequenceLength
  /\ levelIndex' = index
  /\ score' = score
  /\ sequence' = newSeq
  /\ screen' = "game"
  /\ beginRound(Detach(playbacks, sequence), index)
  /\ startLevel' = index
  /\ advanced' = 0
  /\ UNCHANGED << timers, clockStarted, badDone >>

startRunFromLevel_OffByOne(index, newSeq) ==
  /\ Len(playbacks) < MaxPlaybacks
  /\ Len(newSeq) = LEVELS[index + 1].sequenceLength
  /\ levelIndex' = index
  /\ score' = 0
  /\ sequence' = Append(newSeq, newSeq[1])
  /\ screen' = "game"
  /\ beginRound(Detach(playbacks, sequence), index)
  /\ startLevel' = index
  /\ advanced' = 0
  /\ UNCHANGED << timers, clockStarted, badDone >>

\* click on level button index
startRunFromLevel(index, newSeq) ==
  /\ Len(playbacks) < MaxPlaybacks
  /\ Len(newSeq) = LEVELS[index + 1].sequenceLength
  /\ levelIndex' = index
  /\ score' = 0
  /\ sequence' = newSeq
  /\ screen' = "game"
  /\ beginRound(Detach(playbacks, sequence), index)
  /\ startLevel' = index
  /\ advanced' = 0
  /\ UNCHANGED << timers, clockStarted, badDone >>

\* the 650 ms timer of advanceLevelOrWin fires
TimerFires ==
  /\ timers > 0
  /\ Len(playbacks) < MaxPlaybacks
  /\ timers' = timers - 1
  /\ beginRound(playbacks, levelIndex)
  /\ UNCHANGED << screen, levelIndex, score, sequence, clockStarted,
                  startLevel, advanced, badDone >>

advanceLevelOrWin_NoTimer(c) ==
  /\ score' = score + RoundBonus
  /\ IF levelIndex = Len(LEVELS) - 1
       THEN /\ screen' = "victory"
            /\ UNCHANGED << levelIndex, sequence, timers, advanced >>
       ELSE /\ timers < MaxTimers
            /\ levelIndex' = levelIndex + 1
            /\ sequence' = Append(sequence, c)
            /\ timers' = timers
            /\ advanced' = advanced + 1
            /\ UNCHANGED screen

advanceLevelOrWin_NoWinBonus(c) ==
  /\ score' = IF levelIndex = Len(LEVELS) - 1 THEN score ELSE score + RoundBonus
  /\ IF levelIndex = Len(LEVELS) - 1
       THEN /\ screen' = "victory"
            /\ UNCHANGED << levelIndex, sequence, timers, advanced >>
       ELSE /\ timers < MaxTimers
            /\ levelIndex' = levelIndex + 1
            /\ sequence' = Append(sequence, c)
            /\ timers' = timers + 1
            /\ advanced' = advanced + 1
            /\ UNCHANGED screen

advanceLevelOrWin_SkipsLevel(c) ==
  /\ score' = score + RoundBonus
  /\ IF levelIndex = Len(LEVELS) - 1
       THEN /\ screen' = "victory"
            /\ UNCHANGED << levelIndex, sequence, timers, advanced >>
       ELSE /\ timers < MaxTimers
            /\ levelIndex' = levelIndex + 2
            /\ sequence' = Append(sequence, c)
            /\ timers' = timers + 1
            /\ advanced' = advanced + 1
            /\ UNCHANGED screen

advanceLevelOrWin_NoReturn(c) ==
  /\ score' = score + RoundBonus
  /\ screen' = IF levelIndex = Len(LEVELS) - 1 THEN "victory" ELSE screen
  /\ timers < MaxTimers
  /\ levelIndex' = levelIndex + 1
  /\ sequence' = Append(sequence, c)
  /\ timers' = timers + 1
  /\ advanced' = advanced + 1

advanceLevelOrWin_Prepends(c) ==
  /\ score' = score + RoundBonus
  /\ IF levelIndex = Len(LEVELS) - 1
       THEN /\ screen' = "victory"
            /\ UNCHANGED << levelIndex, sequence, timers, advanced >>
       ELSE /\ timers < MaxTimers
            /\ levelIndex' = levelIndex + 1
            /\ sequence' = << c >> \o sequence
            /\ timers' = timers + 1
            /\ advanced' = advanced + 1
            /\ UNCHANGED screen

advanceLevelOrWin_WinsEarly(c) ==
  /\ score' = score + RoundBonus
  /\ IF levelIndex >= Len(LEVELS) - 2
       THEN /\ screen' = "victory"
            /\ UNCHANGED << levelIndex, sequence, timers, advanced >>
       ELSE /\ timers < MaxTimers
            /\ levelIndex' = levelIndex + 1
            /\ sequence' = Append(sequence, c)
            /\ timers' = timers + 1
            /\ advanced' = advanced + 1
            /\ UNCHANGED screen

\* advanceLevelOrWin(), called by onPadPress with acceptingInput already false
advanceLevelOrWin(c) ==
  /\ score' = score + RoundBonus
  /\ IF levelIndex = Len(LEVELS) - 1
       THEN /\ screen' = "victory"
            /\ UNCHANGED << levelIndex, sequence, timers, advanced >>
       ELSE /\ timers < MaxTimers
            /\ levelIndex' = levelIndex + 1
            /\ sequence' = Append(sequence, c)
            /\ timers' = timers + 1
            /\ advanced' = advanced + 1
            /\ UNCHANGED screen

\* sequence[inputIndex], undefined past the end
Expected == IF inputIndex < Len(sequence) THEN sequence[inputIndex + 1]
                                          ELSE "undefined"

PadIgnored_NoAcceptCheck == isAnimatingSequence \/ screen # "game"

\* the first return of onPadPress
PadIgnored == ~acceptingInput \/ isAnimatingSequence \/ screen # "game"

onMismatch_KeepsAccepting ==
  /\ screen' = "gameover"
  /\ UNCHANGED << levelIndex, score, sequence, inputIndex, acceptingInput,
                  isAnimatingSequence, playbacks, timers,
                  clockStarted, startLevel, advanced, badDone >>

\* the mismatch branch of onPadPress
onMismatch ==
  /\ acceptingInput' = FALSE
  /\ screen' = "gameover"
  /\ UNCHANGED << levelIndex, score, sequence, inputIndex,
                  isAnimatingSequence, playbacks, timers,
                  clockStarted, startLevel, advanced, badDone >>

onPadPress_LateCompletion(color, next) ==
  IF PadIgnored
    THEN UNCHANGED vars
    ELSE IF color # Expected
      THEN onMismatch
      ELSE /\ inputIndex' = inputIndex + 1
           /\ IF inputIndex + 1 > Len(sequence)
                THEN /\ acceptingInput' = FALSE
                     /\ advanceLevelOrWin(next)
                ELSE UNCHANGED << acceptingInput, screen, levelIndex, score,
                                  sequence, timers, advanced >>
           /\ UNCHANGED << isAnimatingSequence, playbacks, clockStarted,
                           startLevel, badDone >>

\* click on a pad; next is the colour randColor returns if the round advances
onPadPress(color, next) ==
  IF PadIgnored
    THEN UNCHANGED vars
    ELSE IF color # Expected
      THEN onMismatch
      ELSE /\ inputIndex' = inputIndex + 1
           /\ IF inputIndex + 1 >= Len(sequence)
                THEN /\ acceptingInput' = FALSE
                     /\ advanceLevelOrWin(next)
                ELSE UNCHANGED << acceptingInput, screen, levelIndex, score,
                                  sequence, timers, advanced >>
           /\ UNCHANGED << isAnimatingSequence, playbacks, clockStarted,
                           startLevel, badDone >>

ReplaySequence_KeepsAccepting ==
  IF screen # "game" \/ isAnimatingSequence \/ acceptingInput = FALSE
    THEN UNCHANGED vars
    ELSE /\ Len(playbacks) < MaxPlaybacks
         /\ isAnimatingSequence' = TRUE
         /\ playbacks' = playSequenceWithRaf(playbacks,
                                             LEVELS[levelIndex + 1].stepMs,
                                             "replay")
         /\ UNCHANGED << screen, levelIndex, score, sequence, inputIndex,
                         acceptingInput, timers, clockStarted, startLevel,
                         advanced, badDone >>

\* click on replay-sequence
ReplaySequence ==
  IF screen # "game" \/ isAnimatingSequence \/ acceptingInput = FALSE
    THEN UNCHANGED vars
    ELSE /\ Len(playbacks) < MaxPlaybacks
         /\ acceptingInput' = FALSE
         /\ isAnimatingSequence' = TRUE
         /\ playbacks' = playSequenceWithRaf(playbacks,
                                             LEVELS[levelIndex + 1].stepMs,
                                             "replay")
         /\ UNCHANGED << screen, levelIndex, score, sequence, inputIndex,
                         timers, clockStarted, startLevel, advanced, badDone >>

showScreen_ResetsScore(name) ==
  /\ screen' = name
  /\ score' = 0
  /\ UNCHANGED << levelIndex, sequence, inputIndex, acceptingInput,
                  isAnimatingSequence, playbacks, timers, clockStarted,
                  startLevel, advanced, badDone >>

\* showScreen(name)
showScreen(name) ==
  /\ screen' = name
  /\ UNCHANGED << levelIndex, score, sequence, inputIndex, acceptingInput,
                  isAnimatingSequence, playbacks, timers, clockStarted,
                  startLevel, advanced, badDone >>

\* the six navigation buttons and the screen each one shows
NavTarget ==
  [ b \in { "start-btn", "restart-btn", "play-again-btn" } |-> "levels" ] @@
  [ b \in { "back-menu-from-level", "back-menu-from-gameover",
            "back-menu-from-victory" } |-> "menu" ]

NavClick(b) == showScreen(NavTarget[b])

\* the screen whose markup contains each button
ButtonScreen ==
  [ b \in { "start-btn" } |-> "menu" ] @@
  [ b \in { "back-menu-from-level", "level-btn" } |-> "levels" ] @@
  [ b \in { "restart-btn", "back-menu-from-gameover" } |-> "gameover" ] @@
  [ b \in { "play-again-btn", "back-menu-from-victory" } |-> "victory" ]

\* the button is on the active screen
Clickable(b) == screen = ButtonScreen[b]

\* the arrays randColor can fill
RECURSIVE SeqsOfLen(_)
SeqsOfLen(n) ==
  IF n = 0 THEN { << >> }
  ELSE { Append(s, c) : s \in SeqsOfLen(n - 1), c \in Colors }

StartRunOpen == \E i \in LevelIndices :
                  \E s \in SeqsOfLen(LEVELS[i + 1].sequenceLength) :
                    startRunFromLevel(i, s)

StartRun == Clickable("level-btn") /\ StartRunOpen

PadPress == \E c \in PadColors, n \in Colors : onPadPress(c, n)

Navigate == \E b \in DOMAIN NavTarget : Clickable(b) /\ NavClick(b)

Tick == \E d \in Ticks, z \in BOOLEAN : Frame(d, z)

Next ==
  \/ StartRun
  \/ PadPress
  \/ ReplaySequence
  \/ Navigate
  \/ TimerFires
  \/ Tick

Spec == Init /\ [][Next]_vars

\* Spec with the scheduling the browser provides: a requested animation frame
\* is delivered, and a timeout that has been set fires
SpecFair == Spec /\ WF_vars(Tick) /\ WF_vars(TimerFires)

\* a level button clicked whatever screen is shown
StartRunAnywhere ==
  \E i \in 0..MaxOpenLevel :
    \E s \in SeqsOfLen(LEVELS[i + 1].sequenceLength) :
      startRunFromLevel(i, s)

NextOpen ==
  \/ StartRunAnywhere
  \/ PadPress
  \/ ReplaySequence
  \/ Navigate
  \/ TimerFires
  \/ Tick

SpecOpen == Init /\ [][NextOpen]_vars

\* ------------------------------------------------------------ properties

LastLevel == Len(LEVELS) - 1

\* onPadPress gets past its first return
AcceptsInput == screen = "game" /\ acceptingInput /\ ~isAnimatingSequence

\* a playback is in flight: frame callbacks are registered, or the 650 ms
\* pause before the next one is running
InFlight == isAnimatingSequence \/ playbacks # << >> \/ timers > 0

\* the step is a pad press of colour c
Pressed(c) == \E n \in Colors : onPadPress(c, n)

\* the step is the pad press that completes the current round
CompletesRound ==
  /\ AcceptsInput
  /\ inputIndex + 1 >= Len(sequence)
  /\ Pressed(Expected)

\* the step is a click on a level button (the only way from levels to game)
StartsRun == screen = "levels" /\ screen' = "game"

\* a playback started by the replay button is registered
ReplayInFlight == \E i \in 1..Len(playbacks) : playbacks[i].onDone = "replay"

\* C1: acceptingInput and isAnimatingSequence are never both true.
C1_FlagsExclusive == ~(acceptingInput /\ isAnimatingSequence)

C1_Witness ==
  /\ screen = "game" /\ acceptingInput /\ ~isAnimatingSequence
  /\ advanced > 0 /\ inputIndex > 0

\* C2: a pad press while the screen is not the game screen, or input is not
\* accepted, or a playback is in flight (the 650 ms pause included) changes
\* nothing at all, so nothing of it is left for a later step.
C2_PressDiscarded ==
  [][ ( (screen # "game" \/ ~acceptingInput \/ InFlight)
        /\ \E c \in PadColors : Pressed(c) )
      => UNCHANGED vars ]_vars

C2_Witness == screen = "game" /\ timers > 0 /\ ~acceptingInput /\ inputIndex > 0

\* C3: while input is accepted, a press that differs from
\* sequence[inputIndex] moves to gameover in that step, clears
\* acceptingInput and leaves score, levelIndex and sequence alone; a miss in
\* the first round of a run ends with score 0.
C3_MismatchEnds ==
  /\ [][ ( AcceptsInput /\ \E c \in PadColors : c # Expected /\ Pressed(c) )
         => ( /\ screen' = "gameover"
              /\ acceptingInput' = FALSE
              /\ UNCHANGED << score, levelIndex, sequence >> ) ]_vars
  /\ []( screen = "gameover" /\ advanced = 0 => score = 0 )

C3_Witness == screen = "gameover" /\ inputIndex > 0 /\ advanced > 0

\* C4: a correct press before the last position only moves the cursor; the
\* correct press at the last position adds exactly 100 to the score and
\* either advances (level + 1, one delayed round start scheduled, screen
\* stays) on a non-final level or wins (screen victory) on the final level,
\* never both and never neither.
C4_Advance ==
  /\ levelIndex' = levelIndex + 1
  /\ timers' = timers + 1

C4_Win == screen' = "victory"

C4_AdvanceXorWin ==
  /\ [][ CompletesRound
         => ( /\ score' = score + 100
              /\ (levelIndex < LastLevel =>
                    C4_Advance /\ ~C4_Win /\ screen' = "game")
              /\ (levelIndex = LastLevel => C4_Win /\ ~C4_Advance) ) ]_vars
  /\ [][ ( AcceptsInput /\ inputIndex + 1 < Len(sequence) /\ Pressed(Expected) )
         => ( /\ inputIndex' = inputIndex + 1
              /\ UNCHANGED << screen, score, levelIndex, sequence,
                              acceptingInput, timers >> ) ]_vars

C4_Witness == screen = "victory" /\ advanced >= 1 /\ score = 100 * (advanced + 1)

\* C5: completing a round on a non-final level appends exactly one signal
\* (old prefix kept, in order), and the sequence changes in no other way
\* except by startRunFromLevel.
C5_Grown ==
  /\ Len(sequence') = Len(sequence) + 1
  /\ SubSeq(sequence', 1, Len(sequence)) = sequence
  /\ sequence'[Len(sequence')] \in Colors

C5_PrefixGrowth ==
  /\ [][ CompletesRound /\ levelIndex < LastLevel => C5_Grown ]_vars
  /\ [][ sequence' # sequence => (C5_Grown \/ StartsRun) ]_vars

C5_Witness ==
  /\ advanced >= 2
  /\ Len(sequence) >= 2
  /\ sequence[Len(sequence)] # sequence[Len(sequence) - 1]
  /\ sequence[1] # sequence[2]

\* C6: while a run exists, the sequence is as long as the starting level's
\* sequenceLength plus the number of levels advanced since; a fresh run has
\* exactly the selected level's sequenceLength.
RunExists == screen \in { "game", "gameover", "victory" }

C6_Length ==
  /\ []( RunExists =>
           Len(sequence) = LEVELS[startLevel + 1].sequenceLength + advanced )
  /\ [][ StartsRun =>
           Len(sequence') = LEVELS[levelIndex' + 1].sequenceLength ]_vars

C6_Witness == RunExists /\ startLevel = 1 /\ advanced = 3

\* C7: completing the last level's round shows victory without touching
\* levelIndex, the sequence, the timers or the registered playbacks, and no
\* other step enters the victory screen.
C7_VictoryOnlyAtLast ==
  /\ [][ CompletesRound /\ levelIndex = LastLevel
         => ( /\ screen' = "victory"
              /\ UNCHANGED << levelIndex, sequence, timers, playbacks,
                              isAnimatingSequence >> ) ]_vars
  /\ [][ screen' = "victory" /\ screen # "victory"
         => CompletesRound /\ levelIndex = LastLevel ]_vars

C7_Witness == screen = "victory" /\ levelIndex = LastLevel /\ advanced = 0

\* C8: a replay click is a no-op unless the game screen accepts input with
\* nothing in flight; from the step that starts a replay to the step that
\* completes it, score, levelIndex, sequence (and screen, cursor, timers)
\* do not change, and the completing step sets inputIndex to 0 and accepts
\* input again.
C8_Replay ==
  /\ [][ ( ReplaySequence /\ ~(AcceptsInput /\ ~InFlight) )
         => UNCHANGED vars ]_vars
  /\ [][ ( ReplayInFlight \/ ReplayInFlight' )
         => UNCHANGED << score, levelIndex, sequence, screen, timers >> ]_vars
  /\ [][ ReplayInFlight /\ ReplayInFlight' => UNCHANGED inputIndex ]_vars
  /\ [][ ReplayInFlight /\ ~ReplayInFlight'
         => ( /\ inputIndex' = 0
              /\ acceptingInput' = TRUE
              /\ isAnimatingSequence' = FALSE
              /\ playbacks' = << >> ) ]_vars

C8_Witness ==
  /\ ReplayInFlight
  /\ inputIndex > 0
  /\ playbacks[1].idx = Len(sequence)
  /\ advanced > 0

\* C9: a playback emits its array's elements one per frame at most, the
\* k-th emit being index k-1, and it completes only when it has emitted
\* every element exactly once.
C9_Emits ==
  /\ []( \A i \in 1..Len(playbacks) :
           /\ playbacks[i].emits = playbacks[i].idx
           /\ playbacks[i].lastEmit = playbacks[i].emits - 1
           /\ playbacks[i].idx <= ArrayLen(playbacks[i], sequence) )
  /\ [](~badDone)
  /\ [][ playbacks # << >> /\ playbacks' # << >>
         => playbacks'[1].emits - playbacks[1].emits \in { 0, 1 } ]_vars

C9_Witness ==
  /\ AcceptsInput /\ playbacks = << >> /\ inputIndex = 0
  /\ advanced > 0 /\ ~badDone

\* the step runs a playback's completion callback (nothing else clears
\* isAnimatingSequence)
CallbackRuns == isAnimatingSequence /\ ~isAnimatingSequence'

\* C10: two consecutive emits of one playback are at least
\* max(280, stepMs) ms of frame time apart.
C10_MinGap == \A i \in 1..Len(playbacks) : ~playbacks[i].shortGap

\* C11: the completion callback of a playback runs once: on a frame at
\* least max(280, stepMs) ms after the frame that emitted the last element,
\* with every element emitted, and the playback is registered for no frame
\* afterwards.
C11_Completion ==
  /\ [][ CallbackRuns
         => ( /\ Len(playbacks) = 1
              /\ playbacks' = << >>
              /\ acceptingInput' = TRUE
              /\ playbacks[1].emits = ArrayLen(playbacks[1], sequence)
              /\ playbacks[1].lastEmit = ArrayLen(playbacks[1], sequence) - 1
              /\ \A d \in Ticks :
                    Frame(d, FALSE) =>
                      playbacks[1].sinceEmit + d >= playbacks[1].minInterval ) ]_vars
  /\ [][ Len(playbacks') < Len(playbacks) => CallbackRuns ]_vars
  /\ []( ~isAnimatingSequence => playbacks = << >> )

C11_Witness ==
  /\ AcceptsInput /\ playbacks = << >> /\ timers = 0
  /\ levelIndex = LastLevel /\ inputIndex = 0 /\ clockStarted

\* C12: at most one playback is registered at any time.
C12_OnePlayback == Len(playbacks) <= 1

\* C13: a registration of a superseded round is cancelled: nothing is
\* registered once the game screen has been left, no registered playback
\* holds the array of an earlier run, and no delayed round start is pending
\* beside a registered playback.
C13_StaleCancelled ==
  /\ screen # "game" => playbacks = << >> /\ timers = 0
  /\ \A i \in 1..Len(playbacks) : playbacks[i].alias
  /\ playbacks # << >> => timers = 0

\* C14: a click on a level button, whatever an earlier run has left (a
\* non-zero score included), yields score 0, the clicked level as
\* levelIndex, a sequence of that level's sequenceLength, inputIndex 0, the
\* game screen, one fresh playback in flight and acceptingInput false.
C14_StartRun ==
  [][ StartsRun
      => ( /\ score' = 0
           /\ levelIndex' = startLevel'
           /\ levelIndex' \in LevelIndices
           /\ Len(sequence') = LEVELS[levelIndex' + 1].sequenceLength
           /\ inputIndex' = 0
           /\ screen' = "game"
           /\ isAnimatingSequence'
           /\ Len(playbacks') = 1
           /\ playbacks'[1].idx = 0 /\ playbacks'[1].emits = 0
           /\ playbacks'[1].alias
           /\ ~acceptingInput' ) ]_vars

\* a run started on level 2 after frames of an earlier run have been
\* delivered, its first playback not yet ticked
C14_Witness ==
  /\ screen = "game" /\ clockStarted
  /\ startLevel = 2 /\ levelIndex = 2 /\ advanced = 0 /\ score = 0
  /\ Len(playbacks) = 1
  /\ playbacks[1].onDone = "round" /\ ~playbacks[1].stamped
  /\ playbacks[1].emits = 0

\* C15: inputIndex never exceeds the length of the sequence, and while
\* input is accepted it is below it, so sequence[inputIndex] exists.
C15_CursorInRange ==
  /\ inputIndex <= Len(sequence)
  /\ acceptingInput => inputIndex < Len(sequence)

C15_Witness ==
  /\ AcceptsInput
  /\ levelIndex = LastLevel
  /\ inputIndex = Len(sequence) - 1

\* the screen changes the state machine of the game allows
ScreenEdges ==
  { << "menu", "levels" >>, << "levels", "game" >>, << "levels", "menu" >>,
    << "game", "gameover" >>, << "game", "victory" >>,
    << "gameover", "menu" >>, << "gameover", "levels" >>,
    << "victory", "menu" >>, << "victory", "levels" >> }

\* C16: the screen changes only along the edges of ScreenEdges; the game
\* screen is left only by a mismatching press (to gameover) or by the press
\* that completes the last level (to victory); a step to menu or levels
\* changes nothing but the screen.
C16_Screens ==
  /\ [][ screen' # screen => << screen, screen' >> \in ScreenEdges ]_vars
  /\ [][ (screen = "game" /\ screen' = "gameover")
          => ( /\ AcceptsInput
               /\ \E c \in PadColors : c # Expected /\ Pressed(c) ) ]_vars
  /\ [][ (screen = "game" /\ screen' = "victory")
          => ( CompletesRound /\ levelIndex = LastLevel ) ]_vars
  /\ [][ (screen' # screen /\ screen' \in { "menu", "levels" })
          => UNCHANGED << score, levelIndex, sequence, inputIndex,
                          acceptingInput, isAnimatingSequence, playbacks,
                          timers >> ]_vars

\* back on the level screen after a run that scored and ended in a miss
C16_Witness ==
  /\ screen = "levels" /\ score > 0 /\ inputIndex > 0
  /\ sequence # << >> /\ levelIndex > startLevel

\* C17: when frames keep arriving and the 650 ms timer fires, every playback
\* and every pause before one ends in a state where input is accepted, no
\* playback is registered and inputIndex is 0.
C17_PlaybackCompletes ==
  InFlight ~> (AcceptsInput /\ playbacks = << >> /\ inputIndex = 0)

\* input accepted after the playbacks of three rounds and two pauses
C17_Witness ==
  /\ AcceptsInput /\ playbacks = << >> /\ timers = 0 /\ inputIndex = 0
  /\ startLevel = 1 /\ advanced = 2

\* C18: on the game screen exactly one of these holds: a playback is
\* registered (isAnimatingSequence), input is accepted, or the 650 ms pause
\* is running with both flags false.
C18_NoDeadState ==
  screen = "game" =>
    LET watching == isAnimatingSequence /\ playbacks # << >>
        pausing  == timers > 0 /\ ~isAnimatingSequence /\ ~acceptingInput
    IN /\ watching \/ acceptingInput \/ pausing
       /\ ~(watching /\ acceptingInput)
       /\ ~(watching /\ pausing)
       /\ ~(acceptingInput /\ pausing)

\* the pause after the second completed round
C18_Witness ==
  /\ screen = "game" /\ timers > 0
  /\ ~isAnimatingSequence /\ ~acceptingInput /\ playbacks = << >>
  /\ advanced = 2

\* C19: the score is RoundBonus for every round completed since the latest
\* click on a level button: RoundBonus * (levelIndex - startLevel) on the
\* game screen and on gameover, RoundBonus * (number of levels - startLevel)
\* on victory; only a completing press or a click on a level button
\* changes it.
C19_Score ==
  /\ []( screen \in { "game", "gameover" }
            => score = RoundBonus * (levelIndex - startLevel) )
  /\ []( screen = "victory"
            => score = RoundBonus * (Len(LEVELS) - startLevel) )
  /\ [][ score' # score => (CompletesRound \/ StartsRun) ]_vars

\* victory of a run started on level 2: three rounds completed
C19_Witness ==
  /\ screen = "victory" /\ startLevel = 2 /\ advanced = 2
  /\ score = 3 * RoundBonus

\* C20: levelIndex is an index of LEVELS; it changes only by +1 on the press
\* that completes a round of a level that is not the last, or by a click on
\* a level button.
C20_LevelIndex ==
  /\ [](levelIndex \in 0..(Len(LEVELS) - 1))
  /\ [][ levelIndex' # levelIndex
          => \/ StartsRun
             \/ ( /\ CompletesRound
                  /\ levelIndex < LastLevel
                  /\ levelIndex' = levelIndex + 1 ) ]_vars

\* the last level reached by advancing from level 1
C20_Witness ==
  /\ screen = "game" /\ levelIndex = LastLevel
  /\ startLevel = 1 /\ advanced = 3 /\ isAnimatingSequence

====
